---------------------------- MODULE Spec2Model ----------------------------
(***************************************************************************)
(* Content repurposing pipeline: extractor cascade (content_fetcher.py),   *)
(* chunker (text_processor.py), retrying model caller and generator        *)
(* (gemini_handler.py), template lookup (templates/prompts.py) and the     *)
(* orchestrator (repurposer.py).                                           *)
(*                                                                         *)
(* Strings are sequences of one-character strings, so that the regular     *)
(* expression substitutions, split, strip, join and substring tests of the *)
(* source are computed and not assumed.                                    *)
(***************************************************************************)
EXTENDS Integers, Sequences, FiniteSets, TLC

(***************************************************************************)
(* Bounds of the model.                                                    *)
(***************************************************************************)
\* longest input text given to chunk_text
MaxTextLen == 7
\* largest max_tokens given to chunk_text
MaxTokensBound == 2
\* largest max_retries given to _call_with_retry called on its own
MaxRetriesBound == 3
\* longest content_types list given to repurpose_from_text
MaxTypes == 2
\* most generation calls a handler makes in SpecKeys
MaxCalls == 2

(***************************************************************************)
(* Program constants.                                                      *)
(***************************************************************************)
\* _call_with_retry(prompt, max_retries=5, base_delay=2)
DefaultMaxRetries == 5
DefaultBaseDelay == 2
\* chunk_text(text, max_tokens=4000)
DefaultMaxTokens == 4000
\* fetch_with_regular_requests(url, max_retries=3)
MaxFetchRetries == 3
\* time.sleep(2 + random.random() * 3): the least delay before a retry
RetryBaseDelay == 2

(***************************************************************************)
(* Characters and strings.                                                 *)
(***************************************************************************)
SP == " "
NL == "\n"
\* the characters input texts are made of: a letter and two kinds of whitespace
Chars == {"a", SP, NL}

IsSpace(c) == c \in {SP, NL}

EmptyStr == << >>

\* all strings over Chars of length at most n
Texts(n) == UNION {[1..k -> Chars] : k \in 0..n}

\* str.strip(): drop leading and trailing whitespace
RECURSIVE LStrip(_)
LStrip(s) == IF s = EmptyStr THEN s
             ELSE IF IsSpace(Head(s)) THEN LStrip(Tail(s)) ELSE s

RECURSIVE RStrip(_)
RStrip(s) == IF s = EmptyStr THEN s
             ELSE IF IsSpace(s[Len(s)]) THEN RStrip(SubSeq(s, 1, Len(s) - 1)) ELSE s

Strip(s) == RStrip(LStrip(s))

\* index of the last character of the maximal whitespace run that starts at i
RECURSIVE RunEnd(_, _)
RunEnd(s, i) == IF i < Len(s) /\ IsSpace(s[i + 1]) THEN RunEnd(s, i + 1) ELSE i

\* re.sub(r'\s+', ' ', s): every maximal whitespace run becomes one space
RECURSIVE CollapseFrom(_, _)
CollapseFrom(s, i) ==
    IF i > Len(s) THEN EmptyStr
    ELSE IF IsSpace(s[i]) THEN <<SP>> \o CollapseFrom(s, RunEnd(s, i) + 1)
    ELSE <<s[i]>> \o CollapseFrom(s, i + 1)

CollapseWhitespace(s) == CollapseFrom(s, 1)

\* the largest j in i+1..e with s[j] a newline, or 0 when there is none:
\* where the greedy match of \n\s*\n that starts at i ends
LastNewline(s, i, e) ==
    LET js == {j \in (i + 1)..e : s[j] = NL}
    IN  IF js = {} THEN 0 ELSE CHOOSE j \in js : \A k \in js : k <= j

\* re.sub(r'\n\s*\n', '\n\n', s): leftmost, greedy, non-overlapping
RECURSIVE BlankLinesFrom(_, _)
BlankLinesFrom(s, i) ==
    IF i > Len(s) THEN EmptyStr
    ELSE IF s[i] = NL /\ LastNewline(s, i, RunEnd(s, i)) # 0
         THEN <<NL, NL>> \o BlankLinesFrom(s, LastNewline(s, i, RunEnd(s, i)) + 1)
         ELSE <<s[i]>> \o BlankLinesFrom(s, i + 1)

NormalizeBlankLines(s) == BlankLinesFrom(s, 1)

\* a clean_text that keeps the line breaks: only the blank-line normalisation
\* and the strip are applied
clean_text_keep_newlines(text) == Strip(NormalizeBlankLines(text))

\* TextProcessor.clean_text
clean_text(text) == Strip(NormalizeBlankLines(CollapseWhitespace(text)))

\* index of the last newline of the maximal newline run that starts at i
RECURSIVE NewlineRunEnd(_, _)
NewlineRunEnd(s, i) == IF i < Len(s) /\ s[i + 1] = NL THEN NewlineRunEnd(s, i + 1) ELSE i

\* re.split(r'\n\n+', s): cur is the paragraph collected so far
RECURSIVE SplitFrom(_, _, _)
SplitFrom(s, i, cur) ==
    IF i > Len(s) THEN <<cur>>
    ELSE IF s[i] = NL /\ NewlineRunEnd(s, i) > i
         THEN <<cur>> \o SplitFrom(s, NewlineRunEnd(s, i) + 1, EmptyStr)
         ELSE SplitFrom(s, i + 1, Append(cur, s[i]))

SplitParagraphs(s) == SplitFrom(s, 1, EmptyStr)

\* the paragraph separator "\n\n"
ParSep == <<NL, NL>>

\* "\n\n".join(parts)
RECURSIVE JoinPar(_)
JoinPar(parts) ==
    IF parts = << >> THEN EmptyStr
    ELSE IF Len(parts) = 1 THEN parts[1]
    ELSE parts[1] \o ParSep \o JoinPar(Tail(parts))

\* needle in hay (Python's substring test)
Contains(hay, needle) ==
    \E i \in 0..(Len(hay) - Len(needle)) :
        \A k \in 1..Len(needle) : hay[i + k] = needle[k]

(***************************************************************************)
(* Chunker.  Token counts are kept in quarters of a token (one character   *)
(* is len/4 = a quarter token), so  count + len(p)/4 > max_tokens  is      *)
(* count4 + Len(p) > 4 * max_tokens.                                       *)
(***************************************************************************)
\* one iteration of the paragraph loop; st = [chunks, current_chunk, count4]
ChunkStep(st, paragraph, maxTokens) ==
    IF st.count4 + Len(paragraph) > 4 * maxTokens /\ st.current_chunk # EmptyStr
    THEN [chunks        |-> Append(st.chunks, Strip(st.current_chunk)),
          current_chunk |-> paragraph,
          count4        |-> Len(paragraph)]
    ELSE [chunks        |-> st.chunks,
          current_chunk |-> IF st.current_chunk # EmptyStr
                            THEN st.current_chunk \o ParSep \o paragraph
                            ELSE paragraph,
          count4        |-> st.count4 + Len(paragraph)]

RECURSIVE ChunkLoop(_, _, _)
ChunkLoop(st, paragraphs, maxTokens) ==
    IF paragraphs = << >> THEN st
    ELSE ChunkLoop(ChunkStep(st, Head(paragraphs), maxTokens), Tail(paragraphs), maxTokens)

\* the paragraph loop of chunk_text without the final append of the open chunk
chunk_paragraphs_no_last(paragraphs, maxTokens) ==
    ChunkLoop([chunks |-> << >>, current_chunk |-> EmptyStr, count4 |-> 0],
              paragraphs, maxTokens).chunks

\* the paragraph loop of chunk_text and the final append
chunk_paragraphs(paragraphs, maxTokens) ==
    LET st == ChunkLoop([chunks |-> << >>, current_chunk |-> EmptyStr, count4 |-> 0],
                        paragraphs, maxTokens)
    IN  IF st.current_chunk # EmptyStr
        THEN Append(st.chunks, Strip(st.current_chunk))
        ELSE st.chunks

\* TextProcessor.chunk_text
chunk_text(text, maxTokens) ==
    chunk_paragraphs(SplitParagraphs(clean_text(text)), maxTokens)

(***************************************************************************)
(* Generation capability: generate(prompt) answers with text or raises.    *)
(* An error has a type and a message; str(e) is the message.               *)
(***************************************************************************)
Msg429 == <<"4", "2", "9">>

OkResp         == [kind |-> "ok",    type |-> "",                    msg |-> <<"r">>]
\* a response whose text is the empty string
OkEmptyResp    == [kind |-> "ok",    type |-> "",                    msg |-> << >>]
\* the rate-limit error of the capability: "429 ..."
ErrRateLimit   == [kind |-> "error", type |-> "ResourceExhausted",   msg |-> <<"4", "2", "9", " ", "q">>]
\* credential errors: "403 ...", "401 ..."
ErrForbidden   == [kind |-> "error", type |-> "PermissionDenied",    msg |-> <<"4", "0", "3">>]
ErrUnauth      == [kind |-> "error", type |-> "Unauthenticated",     msg |-> <<"4", "0", "1">>]
\* an error of the rate-limit type whose message carries no 429
ErrQuotaNoCode == [kind |-> "error", type |-> "ResourceExhausted",   msg |-> <<"q">>]
\* an error of another type whose message happens to contain 429
ErrOther429    == [kind |-> "error", type |-> "InternalServerError", msg |-> <<"5", "0", "0", " ", "4", "2", "9">>]

NoError == [kind |-> "none", type |-> "", msg |-> EmptyStr]

Errors == {ErrRateLimit, ErrForbidden, ErrUnauth, ErrQuotaNoCode, ErrOther429}
Responses == {OkResp} \cup Errors

\* "429" in str(e)
Has429(e) == Contains(e.msg, Msg429)

RECURSIVE Pow(_, _)
Pow(b, k) == IF k = 0 THEN 1 ELSE b * Pow(b, k - 1)

\* a wait that does not grow: base_delay before every retry
BackoffDelayConstant(baseDelay, nretries) == baseDelay

\* line 60 without the jitter: base_delay ** retries, the least the wait
\* before the retry can be (random.uniform(0, 1) adds between 0 and 1)
BackoffDelay(baseDelay, nretries) == Pow(baseDelay, nretries)

\* the except branch with the retry test off by one: retries <= max_retries
RetryDecisionOffByOne(e, nretries, maxRetries) ==
    IF Has429(e) /\ nretries <= maxRetries THEN "retry" ELSE "raise"

\* the except branch recognising the rate limit by the error's type
RetryDecisionByType(e, nretries, maxRetries) ==
    IF e.type = "ResourceExhausted" /\ nretries < maxRetries THEN "retry" ELSE "raise"

\* the except branch of _call_with_retry: retry or re-raise
RetryDecision(e, nretries, maxRetries) ==
    IF Has429(e) /\ nretries < maxRetries THEN "retry" ELSE "raise"

(***************************************************************************)
(* Extractor.  A downloaded page is described by what the libraries make   *)
(* of it:                                                                  *)
(*   body  - trafilatura.extract: raises, None, or the extracted text      *)
(*           (trafilatura gives None rather than a blank text);            *)
(*   title - BeautifulSoup's soup.title: no title tag, a title tag whose   *)
(*           .string is None (empty or with nested tags), or a title tag   *)
(*           with a string;                                                *)
(*   dom   - the text the BeautifulSoup fallback collects with select and  *)
(*           get_text: raises, or a text that may be empty or blank.       *)
(***************************************************************************)
BodyOutcomes ==
    {[kind |-> "raise", text |-> EmptyStr], [kind |-> "none", text |-> EmptyStr],
     [kind |-> "text", text |-> <<"b">>], [kind |-> "text", text |-> <<"b", NL>>]}

TitleOutcomes ==
    {[kind |-> "absent", text |-> EmptyStr], [kind |-> "nostring", text |-> EmptyStr],
     [kind |-> "string", text |-> <<"T">>], [kind |-> "string", text |-> <<SP, "T", SP>>],
     [kind |-> "string", text |-> <<SP>>]}

DomOutcomes ==
    {[kind |-> "raise", text |-> EmptyStr],
     [kind |-> "text", text |-> EmptyStr], [kind |-> "text", text |-> <<NL, SP>>],
     [kind |-> "text", text |-> <<"b">>], [kind |-> "text", text |-> <<SP, "b">>]}

Pages == [body : BodyOutcomes, title : TitleOutcomes, dom : DomOutcomes]

EmptyResult == [title |-> EmptyStr, content |-> EmptyStr]

\* title = soup.title.string if soup.title else "" ... title.strip():
\* None.strip() raises AttributeError when the tag has no string
TitleLookup(t) ==
    CASE t.kind = "absent"   -> [raised |-> FALSE, text |-> EmptyStr]
      [] t.kind = "nostring" -> [raised |-> TRUE,  text |-> EmptyStr]
      [] OTHER               -> [raised |-> FALSE, text |-> Strip(t.text)]

\* the boilerplate-removal extractor produced body text
BodyExtracted(page) == page.body.kind = "text" /\ page.body.text # EmptyStr

\* the trafilatura branch shared by fetch_content's Method 1 and
\* extract_content_from_html's Method 1: a result, or "failed" to go on
TrafilaturaBranch(page) ==
    IF BodyExtracted(page) /\ ~TitleLookup(page.title).raised
    THEN [failed |-> FALSE,
          result |-> [title |-> TitleLookup(page.title).text,
                      content |-> Strip(page.body.text)]]
    ELSE [failed |-> TRUE, result |-> EmptyResult]

\* the BeautifulSoup branch of extract_content_from_html
BeautifulSoupBranch(page) ==
    IF page.dom.kind = "raise" \/ TitleLookup(page.title).raised
    THEN EmptyResult
    ELSE [title |-> TitleLookup(page.title).text, content |-> Strip(page.dom.text)]

\* ContentFetcher.extract_content_from_html, for a non-empty html_content
extract_content_from_html(page) ==
    IF ~TrafilaturaBranch(page).failed
    THEN TrafilaturaBranch(page).result
    ELSE BeautifulSoupBranch(page)

\* extraction from this page produced non-empty body text, by trafilatura or,
\* when the fallback was reached and ran, by the BeautifulSoup heuristics
HtmlBodyExtracted(page) ==
    \/ BodyExtracted(page)
    \/ page.dom.kind = "text" /\ Strip(page.dom.text) # EmptyStr

\* the three strategies of fetch_content, in the order of the source
StrategyOrder == <<"direct", "disguised", "protected">>

\* what requests.get / get_random_headers can do on one attempt
RequestOutcomes == {"200", "200_empty", "403", "429", "500", "RequestException", "header_error"}

\* what scraper.get can do
ScraperOutcomes == {"200", "200_empty", "403", "raise"}

\* what trafilatura.fetch_url can do
DownloadOutcomes == {"html", "none", "raise"}

(***************************************************************************)
(* Templates and prompts.  A template or prompt is a sequence of tokens:   *)
(* a token is a piece of literal text, a replacement field such as         *)
(* "{title}", or a character of a spliced-in title or content.             *)
(***************************************************************************)
ArticleContentMark == "ARTICLE CONTENT:"
ImportantMark == "!IMPORTANT INSTRUCTIONS (if above instructions are conflicting, prioritize these): "

\* the replacement fields that can occur in a template
FieldTokens == {"{title}", "{content}", "{chunk}", "{x}"}

KnownTypes == {"linkedin", "twitter", "email", "thought_leadership"}

\* the text that names an artifact in the templates and fallback prompts
TypeLabel(t) ==
    CASE t = "linkedin"           -> "LINKEDIN POST:"
      [] t = "twitter"            -> "TWITTER THREAD:"
      [] t = "email"              -> "EMAIL NEWSLETTER:"
      [] t = "thought_leadership" -> "THOUGHT LEADERSHIP COMMENTS:"

TypeHead(t) ==
    CASE t = "linkedin"           -> "Create a LinkedIn post based on this article titled "
      [] t = "twitter"            -> "Create a Twitter thread based on this article titled "
      [] t = "email"              -> "Create an email newsletter based on this article titled "
      [] t = "thought_leadership" -> "Create 3 thought leadership comments based on this article titled "

CHUNK_SUMMARIZATION_TEMPLATE ==
    <<"You are processing a section of an article titled ", "{title}",
      "Summarize this section ...", "SECTION:", "{chunk}", "SUMMARIZED SECTION:">>

\* LINKEDIN_POST_TEMPLATE, TWITTER_THREAD_TEMPLATE, EMAIL_NEWSLETTER_TEMPLATE,
\* THOUGHT_LEADERSHIP_TEMPLATE
ArtifactTemplate(t) ==
    <<TypeHead(t), "{title}", "Include: ...", ArticleContentMark, "{content}", TypeLabel(t)>>

\* TEMPLATES as written in prompts.py
TEMPLATES ==
    [k \in KnownTypes \cup {"chunk_summarization"} |->
        IF k = "chunk_summarization" THEN CHUNK_SUMMARIZATION_TEMPLATE
        ELSE ArtifactTemplate(k)]

\* the template store get_template looks into: key -> template
VARIABLE templates

\* get_template: TEMPLATES.get(template_type, ""), on the store as it is
get_template(template_type) ==
    IF template_type \in DOMAIN templates THEN templates[template_type] ELSE EmptyStr

\* str.split(sep) for a separator token: the list of the parts between them
RECURSIVE SplitOnFrom(_, _, _, _)
SplitOnFrom(s, sep, i, cur) ==
    IF i > Len(s) THEN <<cur>>
    ELSE IF s[i] = sep THEN <<cur>> \o SplitOnFrom(s, sep, i + 1, EmptyStr)
    ELSE SplitOnFrom(s, sep, i + 1, Append(cur, s[i]))

SplitOn(s, sep) == SplitOnFrom(s, sep, 1, EmptyStr)

\* str.format(**fields): a field of the template that is not among the
\* keyword arguments raises KeyError
RECURSIVE FormatFrom(_, _, _)
FormatFrom(template, fields, i) ==
    IF i > Len(template) THEN [raised |-> FALSE, value |-> EmptyStr]
    ELSE LET rest == FormatFrom(template, fields, i + 1)
             tok == template[i]
         IN  IF tok \in FieldTokens /\ tok \notin DOMAIN fields
             THEN [raised |-> TRUE, value |-> EmptyStr]
             ELSE IF rest.raised THEN rest
             ELSE [raised |-> FALSE,
                   value |-> (IF tok \in DOMAIN fields THEN fields[tok] ELSE <<tok>>)
                             \o rest.value]

Format(template, fields) == FormatFrom(template, fields, 1)

\* the prompt chunk_summarize builds: the template, or the hardcoded
\* fallback when the lookup or the formatting raises
SummarizePrompt(chunk, original_title) ==
    LET f == Format(get_template("chunk_summarization"),
                    ("{title}" :> original_title) @@ ("{chunk}" :> chunk))
    IN  IF f.raised
        THEN <<"Summarize the following chunk of content from an article titled ">>
             \o original_title \o <<"Preserve key information ...", "CHUNK:">>
             \o chunk \o <<"SUMMARY:">>
        ELSE f.value

\* fallback_prompts: f-strings, so nothing in them is a replacement field
fallback_prompts(condensed_content, original_title, custom_instruction) ==
    [t \in KnownTypes |->
        <<TypeHead(t)>> \o original_title \o <<"Include ...">>
        \o (IF custom_instruction # EmptyStr
            THEN <<ImportantMark>> \o custom_instruction ELSE EmptyStr)
        \o <<ArticleContentMark>> \o condensed_content \o <<TypeLabel(t)>>]

\* the template with the custom instruction spliced in before the content
\* section, or appended when the template has no content section
SpliceInstruction(template, custom_instruction) ==
    LET template_parts == SplitOn(template, ArticleContentMark)
    IN  IF custom_instruction = EmptyStr THEN template
        ELSE IF Len(template_parts) > 1
        THEN template_parts[1] \o <<NL, ImportantMark>> \o custom_instruction
             \o <<NL, NL, ArticleContentMark>> \o template_parts[2]
        ELSE template \o <<NL, NL>> \o custom_instruction

\* "Invalid content type: {content_type}"
InvalidTypeMarker(content_type) == <<"Invalid content type: ", content_type>>

\* "Error generating {content_type} content. Please try again later."
ErrorMarker(content_type) ==
    <<"Error generating ", content_type, " content. Please try again later.">>

\* lines 188-217 of create_repurposed_content: the prompt to send, or the
\* invalid-content-type answer returned without a call
ResolvePrompt(content_type, condensed_content, original_title, custom_instruction) ==
    LET fallback == fallback_prompts(condensed_content, original_title, custom_instruction)
        f == Format(SpliceInstruction(get_template(content_type), custom_instruction),
                    ("{title}" :> original_title) @@ ("{content}" :> condensed_content))
    IN  IF f.raised
        THEN IF content_type \in DOMAIN fallback
             THEN [invalid |-> FALSE, prompt |-> fallback[content_type]]
             ELSE [invalid |-> TRUE,  prompt |-> EmptyStr]
        ELSE IF f.value = EmptyStr /\ content_type \in DOMAIN fallback
             THEN [invalid |-> FALSE, prompt |-> fallback[content_type]]
             ELSE [invalid |-> FALSE, prompt |-> f.value]

\* create_repurposed_content's except around _call_with_retry, re-raising
GenerationFailureReraised(content_type) ==
    [raises |-> TRUE, value |-> EmptyStr]

\* create_repurposed_content's except around _call_with_retry, answering
\* with an error string that names no content type
GenerationFailureGeneric(content_type) ==
    [raises |-> FALSE, value |-> <<"Error generating content. Please try again later.">>]

\* lines 221-223 of create_repurposed_content: the error is turned into a
\* string for that content type
GenerationFailure(content_type) ==
    [raises |-> FALSE, value |-> ErrorMarker(content_type)]

\* chunk_summarize's except around _call_with_retry, answering with an
\* empty summary
SummarizationFailureEmpty(chunk) ==
    [raises |-> FALSE, value |-> EmptyStr]

\* lines 101-103 of chunk_summarize: the chunk itself stands in for the
\* summary
SummarizationFailure(chunk) ==
    [raises |-> FALSE, value |-> chunk]

\* TextProcessor.summarize_chunks
summarize_chunks(chunkList, model_output) == JoinPar(model_output)

\* repurpose with the check of the fetched content left out
FetchFailedNeverChecked(content_data) == FALSE

\* repurpose line 48: not content_data["content"]
FetchFailed(content_data) == content_data.content = EmptyStr

\* {"error": "Failed to fetch content from URL"}
FetchErrorResult == [k \in {"error"} |-> <<"Failed to fetch content from URL">>]

VARIABLES
    cpc,          \* chunker call: "start" or "done"
    text,         \* chunker call: the input text
    max_tokens,   \* chunker call: the token budget
    chunks,       \* chunker call: the returned list
    rpc,          \* _call_with_retry: "idle", "loop", "returned", "raised", "fell"
    max_retries,  \* _call_with_retry: argument
    base_delay,   \* _call_with_retry: argument
    retries,      \* _call_with_retry: local
    history,      \* what generate_content answered, per invocation of this call
    delays,       \* the least delay (jitter 0) of every sleep of this call
    retval,       \* _call_with_retry: the response text returned
    raisedErr,    \* _call_with_retry: the error raised to the caller
    fpc,          \* fetch_content: "idle", "direct", "regular", "cloud", "done", "raised"
    url,          \* fetch_content: "wellformed", or "malformed" (urlparse raises on it)
    attempt,      \* fetch_with_regular_requests: the loop variable
    gets,         \* fetch_with_regular_requests: GET requests issued
    lastGet,      \* fetch_with_regular_requests: what the last GET gave, or "none"
    fetchDelays,  \* fetch_with_regular_requests: least delay of every sleep
    stratLog,     \* fetch_content: the strategies invoked, in order
    yielded,      \* fetch_content: the strategies whose extraction produced body text
    soup_title,   \* soup.title of the page the last strategy parsed, or "unparsed"
    fetchResult,  \* fetch_content: the returned FetchResult
    opc,          \* repurpose / repurpose_from_text: position
    mode,         \* "url" for repurpose, "text" for repurpose_from_text
    content_types,        \* argument: the requested content types, in order
    custom_instructions,  \* argument: content type -> instruction
    title,        \* the title in use (fetched or given)
    content,      \* the content in use (fetched or given)
    idx,          \* the loop variable i of the loop in progress
    prompt,       \* the prompt of the call in progress
    summarized_chunks,    \* repurpose: local
    condensed_content,    \* repurpose: local
    results,      \* repurpose: the mapping returned
    eventLog,     \* calls started, calls ended and delay_between_calls sleeps, in order
    binding,      \* when a GenerativeModel takes its client: "eager" or "lazy"
    configured_key,   \* the API key of the last genai.configure in the process
    hpc,          \* per run: how far GeminiHandler.__init__ has come
    client_key,   \* per run: the key of the client its model holds, or "unbound"
    used_keys,    \* per run: the key each of its generation calls was made under
    upc,          \* the page's "Repurpose Content" handler: position or outcome
    guidance      \* the guidance the page shows for an error, or "none"

chunkVars == <<cpc, text, max_tokens, chunks>>
retryVars == <<rpc, max_retries, base_delay, retries, history, delays, retval, raisedErr>>

fetchVars == <<fpc, url, attempt, gets, lastGet, fetchDelays, stratLog, yielded, soup_title,
              fetchResult>>

runVars == <<opc, mode, content_types, custom_instructions, title, content, idx, prompt,
             summarized_chunks, condensed_content, results, eventLog>>

\* the state of the google.generativeai module and of the handlers made from it
keyVars == <<binding, configured_key, hpc, client_key, used_keys>>

\* the state of the page of api/index.py
uiVars == <<upc, guidance>>

envVars == <<templates, keyVars, uiVars>>

vars == <<chunkVars, retryVars, fetchVars, runVars, envVars>>

(***************************************************************************)
(* GeminiHandler._call_with_retry: one iteration of the while loop, with   *)
(* the capability answering r.                                             *)
(***************************************************************************)
call_with_retry_iteration(r) ==
    /\ rpc = "loop"
    /\ IF retries > max_retries
       THEN \* the while condition fails: the function ends without a value
            /\ rpc' = "fell"
            /\ UNCHANGED <<retries, history, delays, retval, raisedErr>>
       ELSE /\ history' = Append(history, r)
            /\ IF r.kind = "ok"
               THEN /\ rpc' = "returned"
                    /\ retval' = r.msg
                    /\ UNCHANGED <<retries, delays, raisedErr>>
               ELSE IF RetryDecision(r, retries, max_retries) = "retry"
               THEN /\ delays' = Append(delays, BackoffDelay(base_delay, retries))
                    /\ retries' = retries + 1
                    /\ UNCHANGED <<rpc, retval, raisedErr>>
               ELSE /\ rpc' = "raised"
                    /\ raisedErr' = r
                    /\ UNCHANGED <<retries, delays, retval>>
    /\ UNCHANGED <<max_retries, base_delay>>

\* what the capability can answer: within a run a text, which may be empty,
\* the rate-limit error or a credential error; to _call_with_retry called on
\* its own a text and every error, also those whose type and message disagree
Capability ==
    IF mode = "none" THEN Responses
    ELSE {OkResp, OkEmptyResp, ErrRateLimit, ErrForbidden}

\* one iteration of _call_with_retry, the capability answering any way it can
generate_content ==
    /\ \E r \in Capability : call_with_retry_iteration(r)
    /\ UNCHANGED <<envVars, chunkVars, fetchVars, runVars>>

RetryIdle ==
    /\ rpc = "idle"
    /\ max_retries = 0
    /\ base_delay = DefaultBaseDelay
    /\ retries = 0
    /\ history = << >>
    /\ delays = << >>
    /\ retval = EmptyStr
    /\ raisedErr = NoError

ChunkIdle ==
    /\ cpc = "idle"
    /\ text = EmptyStr
    /\ max_tokens = 0
    /\ chunks = << >>

\* the two runs of a process and the API key each was given
RunIds == {"A", "B"}
ApiKeyOf(h) == IF h = "A" THEN "keyA" ELSE "keyB"

\* no handler constructed yet
KeysIdle ==
    /\ binding = "lazy"
    /\ configured_key = "none"
    /\ hpc = [h \in RunIds |-> "new"]
    /\ client_key = [h \in RunIds |-> "unbound"]
    /\ used_keys = [h \in RunIds |-> << >>]

\* the page's handler is not running
UIIdle ==
    /\ upc = "idle"
    /\ guidance = "none"

\* the template store as shipped, no handler constructed yet, no page
EnvIdle ==
    /\ templates = TEMPLATES
    /\ KeysIdle
    /\ UIIdle

(***************************************************************************)
(* ContentFetcher.fetch_content.                                           *)
(***************************************************************************)
FetchIdle ==
    /\ fpc = "idle"
    /\ url = "wellformed"
    /\ attempt = 0
    /\ gets = 0
    /\ lastGet = "none"
    /\ fetchDelays = << >>
    /\ stratLog = << >>
    /\ yielded = {}
    /\ soup_title = "unparsed"
    /\ fetchResult = EmptyResult

FetchStart ==
    /\ fpc = "direct"
    /\ url \in {"wellformed", "malformed"}
    /\ attempt = 0
    /\ gets = 0
    /\ lastGet = "none"
    /\ fetchDelays = << >>
    /\ stratLog = << >>
    /\ yielded = {}
    /\ soup_title = "unparsed"
    /\ fetchResult = EmptyResult

\* fetch_content returns result
FetchReturn(result) ==
    /\ fpc' = "done"
    /\ fetchResult' = result

\* Method 1: trafilatura.fetch_url and trafilatura.extract on the download
fetch_direct ==
    /\ fpc = "direct"
    /\ stratLog' = Append(stratLog, "direct")
    /\ \E dl \in DownloadOutcomes, page \in Pages :
          /\ url = "malformed" => dl # "html"
          /\ soup_title' = IF dl = "html" /\ BodyExtracted(page)
                            THEN page.title.kind ELSE "unparsed"
          /\ IF dl = "html" /\ ~TrafilaturaBranch(page).failed
             THEN /\ FetchReturn(TrafilaturaBranch(page).result)
                  /\ yielded' = yielded \cup {"direct"}
             ELSE /\ fpc' = "regular"
                  /\ yielded' = IF dl = "html" /\ BodyExtracted(page)
                                THEN yielded \cup {"direct"} ELSE yielded
                  /\ UNCHANGED fetchResult
    /\ UNCHANGED <<url, attempt, gets, lastGet, fetchDelays>>

\* a loop that makes one attempt more than max_retries
LoopGoesOnOnceMore(nextAttempt) == nextAttempt <= MaxFetchRetries

\* for attempt in range(max_retries): there is an attempt of this number
LoopGoesOn(nextAttempt) == nextAttempt < MaxFetchRetries

\* Method 2: one iteration of the loop of fetch_with_regular_requests; the
\* iteration that ends the loop goes on in fetch_content to the extraction
\* and to what follows it
fetch_with_regular_requests ==
    /\ fpc = "regular"
    /\ LoopGoesOn(attempt)
    /\ stratLog' = IF attempt = 0 THEN Append(stratLog, "disguised") ELSE stratLog
    /\ \E o \in RequestOutcomes, page \in Pages :
          /\ url = "malformed" => o = "header_error"
          /\ fetchDelays' = IF attempt > 0 THEN Append(fetchDelays, RetryBaseDelay)
                            ELSE fetchDelays
          /\ gets' = IF o = "header_error" THEN gets ELSE gets + 1
          /\ lastGet' = IF o = "header_error" THEN lastGet ELSE o
          /\ soup_title' = IF o = "200" THEN page.title.kind ELSE "unparsed"
          /\ CASE o = "header_error" ->
                    \* not a RequestException: leaves fetch_content
                    /\ fpc' = "raised"
                    /\ UNCHANGED <<attempt, yielded, fetchResult>>
               [] o = "200" ->
                    /\ yielded' = IF HtmlBodyExtracted(page)
                                  THEN yielded \cup {"disguised"} ELSE yielded
                    /\ IF extract_content_from_html(page).content # EmptyStr
                       THEN FetchReturn(extract_content_from_html(page))
                       ELSE /\ fpc' = "cloud"
                            /\ UNCHANGED fetchResult
                    /\ UNCHANGED attempt
               [] o = "200_empty" ->
                    /\ fpc' = "cloud"
                    /\ UNCHANGED <<attempt, yielded, fetchResult>>
               [] OTHER ->
                    /\ attempt' = attempt + 1
                    /\ fpc' = IF LoopGoesOn(attempt + 1) THEN "regular" ELSE "cloud"
                    /\ UNCHANGED <<yielded, fetchResult>>
    /\ UNCHANGED url

\* Method 3: fetch_with_cloudscraper and extraction, then the empty result
fetch_with_cloudscraper ==
    /\ fpc = "cloud"
    /\ stratLog' = Append(stratLog, "protected")
    /\ \E o \in ScraperOutcomes, page \in Pages :
          IF o = "200"
          THEN /\ yielded' = IF HtmlBodyExtracted(page)
                             THEN yielded \cup {"protected"} ELSE yielded
               /\ soup_title' = page.title.kind
               /\ IF extract_content_from_html(page).content # EmptyStr
                  THEN FetchReturn(extract_content_from_html(page))
                  ELSE FetchReturn(EmptyResult)
          ELSE /\ UNCHANGED yielded
               /\ soup_title' = "unparsed"
               /\ FetchReturn(EmptyResult)
    /\ UNCHANGED <<url, attempt, gets, lastGet, fetchDelays>>

(***************************************************************************)
(* SpecFetch: one call of fetch_content, for every behaviour of the        *)
(* network and of the extraction libraries.                                *)
(***************************************************************************)
RunIdle ==
    /\ opc = "idle"
    /\ mode = "none"
    /\ content_types = << >>
    /\ custom_instructions = << >>
    /\ title = EmptyStr
    /\ content = EmptyStr
    /\ idx = 0
    /\ prompt = EmptyStr
    /\ summarized_chunks = << >>
    /\ condensed_content = EmptyStr
    /\ results = << >>
    /\ eventLog = << >>

FetchInit ==
    /\ EnvIdle
    /\ ChunkIdle
    /\ RetryIdle
    /\ RunIdle
    /\ FetchStart

FetchNext ==
    \/ fetch_direct /\ UNCHANGED <<envVars, chunkVars, retryVars, runVars>>
    \/ fetch_with_regular_requests /\ UNCHANGED <<envVars, chunkVars, retryVars, runVars>>
    \/ fetch_with_cloudscraper /\ UNCHANGED <<envVars, chunkVars, retryVars, runVars>>

SpecFetch == FetchInit /\ [][FetchNext]_vars

(***************************************************************************)
(* Properties of fetch_content (SpecFetch).                                *)
(***************************************************************************)
\* C3: the strategies run in the order direct, disguised, protected, and no
\* strategy is invoked after an earlier one has produced non-empty body
\* text; the call returns that strategy's non-empty result.
C3_StopsAtFirstYield ==
    /\ \A i \in 1..Len(stratLog) : stratLog[i] = StrategyOrder[i]
    /\ \A i \in 1..Len(stratLog) :
          stratLog[i] \in yielded => Len(stratLog) = i
    /\ (fpc = "done" /\ yielded # {}) => fetchResult.content # EmptyStr

\* C4: the returned content is empty iff all three strategies ran and none
\* produced non-empty body text, and a result with empty content is exactly
\* {title: "", content: ""}.
C4_EmptyIffAllFailed ==
    fpc = "done" =>
        /\ fetchResult.content = EmptyStr <=>
              (yielded = {} /\ stratLog = StrategyOrder)
        /\ fetchResult.content = EmptyStr => fetchResult = EmptyResult

\* C5: no error raised inside a strategy leaves fetch_content.
C5_NoErrorLeavesFetch == fpc # "raised"

(***************************************************************************)
(* ContentRepurposer.repurpose and repurpose_from_text.  The two bodies    *)
(* are the same after the content is at hand; an action runs from one      *)
(* blocking call of the generation capability to the next.                 *)
(***************************************************************************)
\* custom_instructions.get(content_type, "")
InstructionFor(content_type) ==
    IF content_type \in DOMAIN custom_instructions
    THEN custom_instructions[content_type] ELSE EmptyStr

\* results.setdefault(content_type, value): a key keeps its first value
StoreKeepFirst(map, key, value) ==
    [k \in DOMAIN map \cup {key} |-> IF k \in DOMAIN map THEN map[k] ELSE value]

\* results[content_type] = value
Store(map, key, value) ==
    [k \in DOMAIN map \cup {key} |-> IF k = key THEN value ELSE map[k]]

CallEvent(unitName, p) == [ev |-> "call", unit |-> unitName, detail |-> p]
EndEvent(unitName, outcome) == [ev |-> "end", unit |-> unitName, detail |-> <<outcome>>]
SleepEvent == [ev |-> "sleep", unit |-> "", detail |-> EmptyStr]

\* how a call of _call_with_retry ended, as its caller sees it
CallOutcome ==
    IF rpc = "returned" THEN (IF retval = EmptyStr THEN "ok_empty" ELSE "ok")
    ELSE IF Has429(raisedErr) THEN "rate_limited" ELSE "rejected"

\* time.sleep(delay_between_calls) after every item, the last included
SleepAlways(log, i, n) == Append(log, SleepEvent)

\* time.sleep(delay_between_calls) if i < len(items) - 1
SleepIfNotLast(log, i, n) == IF i < n - 1 THEN Append(log, SleepEvent) ELSE log

\* _call_with_retry(prompt) is entered with its default arguments
EnterCall ==
    /\ rpc' = "loop"
    /\ max_retries' = DefaultMaxRetries
    /\ base_delay' = DefaultBaseDelay
    /\ retries' = 0
    /\ history' = << >>
    /\ delays' = << >>
    /\ retval' = EmptyStr
    /\ raisedErr' = NoError

\* _call_with_retry has returned or raised and its frame is gone
LeaveCall ==
    /\ rpc' = "idle"
    /\ max_retries' = 0
    /\ base_delay' = DefaultBaseDelay
    /\ retries' = 0
    /\ history' = << >>
    /\ delays' = << >>
    /\ retval' = EmptyStr
    /\ raisedErr' = NoError

\* a loop over chunks that stops one chunk short
AfterChunkSkipsLast(i, summaries) ==
    IF i + 1 < Len(chunks')
    THEN /\ opc' = "summarize"
         /\ idx' = i
         /\ UNCHANGED condensed_content
    ELSE /\ opc' = IF Len(content_types) > 0 THEN "generate" ELSE "done"
         /\ idx' = 0
         /\ condensed_content' = JoinPar(summaries)

\* where the run goes once chunk i (0-based) is the next to summarize
AfterChunk(i, summaries) ==
    IF i < Len(chunks')
    THEN /\ opc' = "summarize"
         /\ idx' = i
         /\ UNCHANGED condensed_content
    ELSE /\ opc' = IF Len(content_types) > 0 THEN "generate" ELSE "done"
         /\ idx' = 0
         /\ condensed_content' = summarize_chunks(chunks', summaries)

\* Step 2 of repurpose (Step 1 of repurpose_from_text): chunk the content
ChunkContent(t, c) ==
    /\ title' = t
    /\ content' = c
    /\ cpc' = "done"
    /\ text' = c
    /\ max_tokens' = DefaultMaxTokens
    /\ chunks' = chunk_text(c, DefaultMaxTokens)
    /\ summarized_chunks' = << >>
    /\ results' = << >>
    /\ AfterChunk(0, << >>)

\* repurpose, from the return of fetch_content to the first summarization
repurpose ==
    /\ mode = "url"
    /\ opc = "fetching"
    /\ fpc \in {"done", "raised"}
    /\ IF fpc = "raised"
       THEN \* the error of fetch_content leaves repurpose
            /\ opc' = "raised"
            /\ UNCHANGED <<chunkVars, title, content, idx, summarized_chunks,
                           condensed_content, results>>
       ELSE IF FetchFailed(fetchResult)
       THEN /\ opc' = "done"
            /\ results' = FetchErrorResult
            /\ UNCHANGED <<chunkVars, title, content, idx, summarized_chunks,
                           condensed_content>>
       ELSE ChunkContent(fetchResult.title, fetchResult.content)
    /\ UNCHANGED <<envVars, retryVars, fetchVars, mode, content_types, custom_instructions,
                   prompt, eventLog>>

\* repurpose_from_text, up to the first summarization
repurpose_from_text ==
    /\ mode = "text"
    /\ opc = "start"
    /\ ChunkContent(title, content)
    /\ UNCHANGED <<envVars, retryVars, fetchVars, mode, content_types, custom_instructions,
                   prompt, eventLog>>

\* chunk_summarize: the prompt is built and _call_with_retry entered
chunk_summarize ==
    /\ opc = "summarize"
    /\ opc' = "summarizing"
    /\ prompt' = SummarizePrompt(chunks[idx + 1], title)
    /\ eventLog' = Append(eventLog, CallEvent("chunk", prompt'))
    /\ EnterCall
    /\ UNCHANGED <<envVars, chunkVars, fetchVars, mode, content_types, custom_instructions,
                   title, content, idx, summarized_chunks, condensed_content, results>>

\* chunk_summarize returns the summary, or the chunk when the call raised;
\* the loop of repurpose appends it, sleeps and moves on
chunk_summarized ==
    /\ opc = "summarizing"
    /\ rpc \in {"returned", "raised"}
    /\ LET failure == SummarizationFailure(chunks[idx + 1])
           summary == IF rpc = "returned" THEN retval ELSE failure.value
       IN  IF rpc = "raised" /\ failure.raises
           THEN /\ opc' = "raised"
                /\ UNCHANGED <<chunkVars, idx, summarized_chunks, condensed_content,
                               eventLog>>
           ELSE /\ summarized_chunks' = Append(summarized_chunks, summary)
                /\ eventLog' = SleepIfNotLast(
                                  Append(eventLog, EndEvent("chunk", CallOutcome)),
                                  idx, Len(chunks))
                /\ UNCHANGED chunkVars
                /\ AfterChunk(idx + 1, summarized_chunks')
    /\ LeaveCall
    /\ UNCHANGED <<envVars, fetchVars, mode, content_types, custom_instructions,
                   title, content, prompt, results>>

\* a loop over content_types that passes over the type after the one done
AfterTypeSkipNext(i) ==
    /\ opc' = IF i + 1 < Len(content_types) THEN "generate" ELSE "done"
    /\ idx' = i + 1

\* where the run goes once content type i (0-based) is the next to generate
AfterType(i) ==
    /\ opc' = IF i < Len(content_types) THEN "generate" ELSE "done"
    /\ idx' = i

\* create_repurposed_content up to the call: the prompt is resolved and
\* _call_with_retry entered, or the invalid-content-type answer is returned
create_repurposed_content ==
    /\ opc = "generate"
    /\ LET content_type == content_types[idx + 1]
           rp == ResolvePrompt(content_type, condensed_content, title,
                               InstructionFor(content_type))
       IN  IF rp.invalid
           THEN /\ results' = Store(results, content_type, InvalidTypeMarker(content_type))
                /\ eventLog' = SleepIfNotLast(
                                  Append(eventLog, EndEvent(content_type, "invalid")),
                                  idx, Len(content_types))
                /\ AfterType(idx + 1)
                /\ UNCHANGED <<retryVars, prompt>>
           ELSE /\ opc' = "generating"
                /\ prompt' = rp.prompt
                /\ eventLog' = Append(eventLog, CallEvent(content_type, rp.prompt))
                /\ EnterCall
                /\ UNCHANGED <<idx, results>>
    /\ UNCHANGED <<envVars, chunkVars, fetchVars, mode, content_types, custom_instructions,
                   title, content, summarized_chunks, condensed_content>>

\* create_repurposed_content returns the response, or what it makes of the
\* error; the loop of repurpose stores it, sleeps and moves on
content_generated ==
    /\ opc = "generating"
    /\ rpc \in {"returned", "raised"}
    /\ LET content_type == content_types[idx + 1]
       IN  IF rpc = "raised" /\ GenerationFailure(content_type).raises
           THEN /\ opc' = "raised"
                /\ UNCHANGED <<idx, results, eventLog>>
           ELSE /\ results' = Store(results, content_type,
                                    IF rpc = "returned" THEN retval
                                    ELSE GenerationFailure(content_type).value)
                /\ eventLog' = SleepIfNotLast(
                                  Append(eventLog, EndEvent(content_type, CallOutcome)),
                                  idx, Len(content_types))
                /\ AfterType(idx + 1)
    /\ LeaveCall
    /\ UNCHANGED <<envVars, chunkVars, fetchVars, mode, content_types, custom_instructions,
                   title, content, prompt, summarized_chunks, condensed_content>>

(***************************************************************************)
(* SpecRun: one run of repurpose or of repurpose_from_text.                *)
(***************************************************************************)
\* the content types of the runs: two known ones and one without a template
RunTypes == {"linkedin", "twitter", "blog"}

TypeLists == UNION {[1..n -> RunTypes] : n \in 0..MaxTypes}

\* a plain instruction, and one with a brace pair in it
PlainInstruction == <<"use more emojis">>
BraceInstruction == <<"use ", "{x}">>

InstructionMaps ==
    {<< >>,
     [t \in RunTypes |-> PlainInstruction],
     [t \in RunTypes |-> BraceInstruction],
     [t \in {"linkedin"} |-> PlainInstruction]}

\* the texts given to repurpose_from_text
RunContents == {EmptyStr, <<SP>>, <<"a">>, <<"a", NL, NL, "a">>}

RunInit ==
    /\ EnvIdle
    /\ ChunkIdle
    /\ RetryIdle
    /\ mode \in {"url", "text"}
    /\ IF mode = "url"
       THEN /\ FetchStart
            /\ opc = "fetching"
            /\ title = EmptyStr
            /\ content = EmptyStr
            /\ content_types \in {<<"linkedin", "twitter">>, <<"blog">>}
            /\ custom_instructions = << >>
       ELSE /\ FetchIdle
            /\ opc = "start"
            /\ title = <<"T">>
            /\ content \in RunContents
            /\ content_types \in TypeLists
            /\ custom_instructions \in InstructionMaps
    /\ idx = 0
    /\ prompt = EmptyStr
    /\ summarized_chunks = << >>
    /\ condensed_content = EmptyStr
    /\ results = << >>
    /\ eventLog = << >>

RunNext ==
    \/ fetch_direct /\ opc = "fetching" /\ UNCHANGED <<envVars, chunkVars, retryVars, runVars>>
    \/ fetch_with_regular_requests /\ opc = "fetching"
          /\ UNCHANGED <<envVars, chunkVars, retryVars, runVars>>
    \/ fetch_with_cloudscraper /\ opc = "fetching"
          /\ UNCHANGED <<envVars, chunkVars, retryVars, runVars>>
    \/ repurpose
    \/ repurpose_from_text
    \/ chunk_summarize
    \/ generate_content
    \/ chunk_summarized
    \/ create_repurposed_content
    \/ content_generated

SpecRun == RunInit /\ [][RunNext]_vars

(***************************************************************************)
(* Properties of the runs (SpecRun).                                       *)
(***************************************************************************)
Requested == {content_types[i] : i \in 1..Len(content_types)}

\* the run returned the fetch-failure mapping instead of generating
FetchFailureReturned == mode = "url" /\ opc = "done" /\ FetchFailed(fetchResult)

\* the units for which the generation capability was called
UnitsCalled == {eventLog[k].unit : k \in {j \in 1..Len(eventLog) : eventLog[j].ev = "call"}}

\* how the last generation for content type t ended ("none": not yet)
LastOutcome(t) ==
    LET ends == {k \in 1..Len(eventLog) : eventLog[k].ev = "end" /\ eventLog[k].unit = t}
    IN  IF ends = {} THEN "none"
        ELSE eventLog[CHOOSE k \in ends : \A j \in ends : j <= k].detail[1]

\* C8: for a content type that is no template key the generator answers
\* with the invalid-content-type error and the generation capability is not
\* called for it, with or without a custom instruction.
C8_UnknownTypeIsRejected ==
    /\ UnitsCalled \subseteq KnownTypes \cup {"chunk"}
    /\ (opc = "done" /\ ~FetchFailureReturned) =>
          \A t \in Requested \ KnownTypes : results[t] = InvalidTypeMarker(t)

\* C9: a failed generation of one content type does not end the run: once
\* generation has begun the run never ends by an error, and the mapping it
\* returns has a key for every requested type, with the response for the
\* types whose generation succeeded and an error marker for the others.
C9_PerTypeIsolation ==
    /\ (UnitsCalled \ {"chunk"} # {}) => opc # "raised"
    /\ (opc = "done" /\ ~FetchFailureReturned) =>
          /\ DOMAIN results = Requested
          /\ \A t \in Requested :
                CASE LastOutcome(t) = "ok"       -> results[t] = OkResp.msg
                  [] LastOutcome(t) = "ok_empty" -> results[t] = OkEmptyResp.msg
                  [] LastOutcome(t) = "invalid"  -> results[t] = InvalidTypeMarker(t)
                  [] OTHER                       -> results[t] = ErrorMarker(t)

\* C9 witness: a run from a URL for linkedin and twitter in which linkedin
\* ran out of retries and twitter was generated
C9_Witness ==
    /\ opc = "done"
    /\ mode = "url"
    /\ content_types = <<"linkedin", "twitter">>
    /\ LastOutcome("linkedin") = "rate_limited"
    /\ LastOutcome("twitter") = "ok"
    /\ results["linkedin"] = ErrorMarker("linkedin")
    /\ results["twitter"] = OkResp.msg

\* fetch_content went through its three strategies and returned no content
AllStrategiesFailed ==
    /\ mode = "url"
    /\ fpc = "done"
    /\ stratLog = StrategyOrder
    /\ fetchResult.content = EmptyStr

\* C10: when all three strategies fail, repurpose returns the fetch-failure
\* mapping and the generation capability is never called in that run.
C10_FetchFailureStopsRun ==
    AllStrategiesFailed =>
        /\ eventLog = << >>
        /\ rpc = "idle" /\ history = << >>
        /\ opc \in {"fetching", "done"}
        /\ opc = "done" => results = FetchErrorResult

\* C10 witness: the run ended on a failed fetch
C10_Witness ==
    /\ AllStrategiesFailed
    /\ opc = "done"
    /\ results = FetchErrorResult

(***************************************************************************)
(* SpecRetry: one call of _call_with_retry, for every max_retries of the   *)
(* bound and every behaviour of the capability.                            *)
(***************************************************************************)
RetryInit ==
    /\ EnvIdle
    /\ ChunkIdle
    /\ FetchIdle
    /\ RunIdle
    /\ rpc = "loop"
    /\ max_retries \in 0..MaxRetriesBound
    /\ base_delay = DefaultBaseDelay
    /\ retries = 0
    /\ history = << >>
    /\ delays = << >>
    /\ retval = EmptyStr
    /\ raisedErr = NoError

RetryNext == generate_content

SpecRetry == RetryInit /\ [][RetryNext]_vars

(***************************************************************************)
(* Properties of _call_with_retry (SpecRetry).                             *)
(***************************************************************************)
RetryEnded == rpc \in {"returned", "raised", "fell"}

\* the errors the capability raised in this call
Failures == SelectSeq(history, LAMBDA r : r.kind = "error")

\* the capability failed with the rate-limit signal every time it failed
OnlyRateLimited == \A k \in 1..Len(Failures) : Has429(Failures[k])

\* C1: when the capability fails with a 429 error exactly N times and then
\* succeeds, the call returns the response iff N <= max_retries and raises
\* otherwise, and a call that returns has slept exactly N times.  (A call
\* that raised on 429 errors alone saw max_retries + 1 of them: the
\* capability's N is larger than max_retries.)
C1_RetrySucceedsIffWithinBudget ==
    (RetryEnded /\ OnlyRateLimited) =>
        /\ rpc \in {"returned", "raised"}
        /\ rpc = "returned" =>
              /\ Len(Failures) <= max_retries
              /\ Len(delays) = Len(Failures)
              /\ retval = OkResp.msg
        /\ rpc = "raised" => Len(Failures) = max_retries + 1

\* C1 witness: a call that returned after max_retries rate-limit failures
C1_Witness ==
    /\ rpc = "returned"
    /\ max_retries >= 2
    /\ Len(Failures) = max_retries
    /\ OnlyRateLimited
    /\ Len(delays) = max_retries

\* C2: an error without the 429 signal is raised to the caller at once, with
\* no sleep and no further invocation after it, and so is a 429 error on the
\* attempt that uses up the retry budget; an error with the signal and budget
\* left is retried whatever its type, an error without it is not retried
\* whatever its type.
C2_OtherErrorsPropagateAtOnce ==
    \A k \in 1..Len(history) :
        LET r == history[k]
            final == (~Has429(r)) \/ (k - 1 >= max_retries)
        IN  r.kind = "error" =>
              /\ final =>
                    /\ Len(history) = k
                    /\ rpc = "raised"
                    /\ raisedErr = r
                    /\ Len(delays) = k - 1
              /\ ~final =>
                    /\ Len(delays) >= k
                    /\ ~(rpc = "raised" /\ Len(history) = k)

\* C2 witness: a rate-limit-typed error without the signal was raised after a
\* retried error of another type that carried the signal
C2_Witness ==
    /\ rpc = "raised"
    /\ Len(history) = 2
    /\ history[1] = ErrOther429
    /\ history[2] = ErrQuotaNoCode
    /\ raisedErr = ErrQuotaNoCode
    /\ Len(delays) = 1

(***************************************************************************)
(* SpecChunk: one call of chunk_text on a bounded input.                   *)
(***************************************************************************)
ChunkInit ==
    /\ EnvIdle
    /\ RetryIdle
    /\ FetchIdle
    /\ RunIdle
    /\ cpc = "start"
    /\ text \in Texts(MaxTextLen)
    /\ max_tokens \in 0..MaxTokensBound
    /\ chunks = << >>

ChunkCall ==
    /\ cpc = "start"
    /\ chunks' = chunk_text(text, max_tokens)
    /\ cpc' = "done"
    /\ UNCHANGED <<text, max_tokens>>
    /\ UNCHANGED <<envVars, retryVars, fetchVars, runVars>>

ChunkNext == ChunkCall

SpecChunk == ChunkInit /\ [][ChunkNext]_vars

(***************************************************************************)
(* Properties of chunk_text (SpecChunk).                                   *)
(***************************************************************************)
\* C6: joining the returned chunks with the paragraph separator gives
\* clean_text(text): nothing is lost, duplicated or reordered.
C6_JoinChunksIsCleanText ==
    cpc = "done" => JoinPar(chunks) = clean_text(text)

\* C6 witness: a text of several blank-line separated paragraphs was chunked
C6_Witness ==
    /\ cpc = "done"
    /\ chunks # << >>
    /\ Len(SplitParagraphs(Strip(text))) > 1

\* a chunk made of one paragraph: no blank-line separator inside it
SingleParagraph(chunk) == Len(SplitParagraphs(chunk)) = 1

BlankTextGiven == mode = "text" /\ Strip(content) = EmptyStr

\* the mapping is a failure result: it has the key "error"
IsFailureResult(map) == "error" \in DOMAIN map

\* C11: given an empty or whitespace-only text, repurpose_from_text returns
\* a failure result and the generation capability is not called.
C11_BlankTextIsRejected ==
    BlankTextGiven =>
        /\ UnitsCalled = {}
        /\ (opc = "done" => IsFailureResult(results))

\* C12: no error leaves repurpose or repurpose_from_text: a run never ends
\* by raising.
C12_RunNeverRaises == opc # "raised"

\* the end events of the chunk summarizations, in order
ChunkEnds == SelectSeq(eventLog, LAMBDA e : e.ev = "end" /\ e.unit = "chunk")

\* the summarization of chunk k (1-based) is over and it failed
ChunkFailed(k) ==
    k <= Len(ChunkEnds) /\ ChunkEnds[k].detail[1] \in {"rate_limited", "rejected"}

\* the run is past the condensation step
Condensed == opc \in {"generate", "generating", "done"} /\ ~FetchFailureReturned

\* C13: a chunk whose summarization failed is stood in for by its own text:
\* the run does not end by the error, every chunk gets its entry, and the
\* condensed document is the join of the entries, with the original text at
\* the position of a failed chunk.
C13_FailedChunkKeepsItsText ==
    /\ Len(ChunkEnds) = Len(summarized_chunks)
    /\ \A k \in 1..Len(chunks) : ChunkFailed(k) =>
          /\ summarized_chunks[k] = chunks[k]
          /\ opc # "raised"
    /\ Condensed =>
          /\ Len(summarized_chunks) = Len(chunks)
          /\ condensed_content = JoinPar(summarized_chunks)

\* C13 witness: a run whose chunk was rejected went on to generate, the
\* condensed document being the chunk's text
C13_Witness ==
    /\ opc = "done"
    /\ Len(chunks) = 1
    /\ ChunkFailed(1)
    /\ condensed_content = chunks[1]
    /\ DOMAIN results # {}

\* C14: whenever the chunk list is non-empty, the condensed document has a
\* non-zero length.
C14_CondensedIsNonEmpty ==
    (Condensed /\ chunks # << >>) => condensed_content # EmptyStr

\* s is a user-facing error string that names content type t
IsErrorStringFor(s, t) ==
    /\ s # EmptyStr
    /\ s[1] = "Error generating "
    /\ \E k \in 1..Len(s) : s[k] = t

\* C15: when the generation call of a content type has raised (retries used
\* up, or rejected), create_repurposed_content returns to the orchestrator,
\* which stores under that type an error string naming the type.
C15_FailureBecomesTypedError ==
    [][(opc = "generating" /\ rpc = "raised") =>
          /\ opc' \in {"generate", "done"}
          /\ content_types[idx + 1] \in DOMAIN results'
          /\ IsErrorStringFor(results'[content_types[idx + 1]], content_types[idx + 1])]_vars

\* C15 witness: a run for twitter alone whose generation was rejected and
\* that returned the error string for twitter
C15_Witness ==
    /\ opc = "done"
    /\ content_types = <<"twitter">>
    /\ LastOutcome("twitter") = "rejected"
    /\ IsErrorStringFor(results["twitter"], "twitter")

(***************************************************************************)
(* SpecPrompt: the prompt building of chunk_summarize and of               *)
(* create_repurposed_content, for every template key, for a template       *)
(* store that holds every template or has one key empty or missing, and    *)
(* for instructions with and without braces.                               *)
(***************************************************************************)
\* the keys of the template store
TemplateKeys == KnownTypes \cup {"chunk_summarization"}

\* the store as shipped, with the template of one key empty, or without one key
TemplateStores ==
    {TEMPLATES}
    \cup {[k \in TemplateKeys |-> IF k = e THEN EmptyStr ELSE TEMPLATES[k]] : e \in TemplateKeys}
    \cup {[k \in TemplateKeys \ {e} |-> TEMPLATES[k]] : e \in TemplateKeys}

\* an instruction that names a field of the template
TitleInstruction == <<"mention ", "{title}">>

Instructions == {EmptyStr, PlainInstruction, BraceInstruction, TitleInstruction}

PromptInit ==
    /\ ChunkIdle
    /\ RetryIdle
    /\ FetchIdle
    /\ KeysIdle
    /\ UIIdle
    /\ templates \in TemplateStores
    /\ mode = "prompt"
    /\ opc = "render"
    /\ content_types \in {<<k>> : k \in TemplateKeys}
    /\ custom_instructions \in {[t \in KnownTypes |-> i] : i \in Instructions}
    /\ title = <<"T">>
    /\ content = <<"a">>
    /\ idx = 0
    /\ prompt = EmptyStr
    /\ summarized_chunks = << >>
    /\ condensed_content = <<"c">>
    /\ results = << >>
    /\ eventLog = << >>

\* chunk_summarize, lines 80-97: the prompt for the chunk
render_summarize_prompt ==
    /\ opc = "render"
    /\ content_types[1] = "chunk_summarization"
    /\ prompt' = SummarizePrompt(content, title)
    /\ opc' = "rendered"
    /\ UNCHANGED <<envVars, chunkVars, retryVars, fetchVars, mode, content_types,
                   custom_instructions, title, content, idx, summarized_chunks,
                   condensed_content, results, eventLog>>

\* create_repurposed_content, lines 188-217: the prompt for the content type
render_artifact_prompt ==
    /\ opc = "render"
    /\ content_types[1] \in KnownTypes
    /\ LET rp == ResolvePrompt(content_types[1], condensed_content, title,
                               InstructionFor(content_types[1]))
       IN  /\ opc' = IF rp.invalid THEN "invalid" ELSE "rendered"
           /\ prompt' = rp.prompt
    /\ UNCHANGED <<envVars, chunkVars, retryVars, fetchVars, mode, content_types,
                   custom_instructions, title, content, idx, summarized_chunks,
                   condensed_content, results, eventLog>>

PromptNext ==
    \/ render_summarize_prompt
    \/ render_artifact_prompt

SpecPrompt == PromptInit /\ [][PromptNext]_vars

(***************************************************************************)
(* Properties of the prompts (SpecPrompt).                                 *)
(***************************************************************************)
\* the positions of token tok in s
PositionsOf(s, tok) == {k \in 1..Len(s) : s[k] = tok}

\* the tokens that stand for the built-in instructions of a template or of
\* a fallback prompt
BuiltInTokens == {"Include: ...", "Include ..."}

\* needle occurs in s after every built-in instruction and before the
\* article content block
SplicedBeforeContent(s, needle) ==
    \E i \in 0..(Len(s) - Len(needle)) :
        /\ \A k \in 1..Len(needle) : s[i + k] = needle[k]
        /\ \E b \in 1..i : s[b] \in BuiltInTokens
        /\ \A b \in 1..Len(s) : s[b] \in BuiltInTokens => b <= i
        /\ \E c \in PositionsOf(s, ArticleContentMark) : c > i + Len(needle)

\* a prompt for a known content type was rendered from the shipped templates
\* with a non-empty custom instruction
InstructedPrompt ==
    /\ mode = "prompt"
    /\ opc \in {"rendered", "invalid"}
    /\ templates = TEMPLATES
    /\ content_types[1] \in KnownTypes
    /\ InstructionFor(content_types[1]) # EmptyStr

\* C16: for a known content type and a non-empty custom instruction, the
\* prompt to send holds the instruction text, after the built-in
\* instructions of the template and before the article content block.
C16_InstructionBeforeContent ==
    InstructedPrompt =>
        /\ opc = "rendered"
        /\ SplicedBeforeContent(prompt, InstructionFor(content_types[1]))

\* the template under the requested key is empty or the key is missing
TemplateEmptyOrMissing ==
    /\ mode = "prompt"
    /\ opc \in {"rendered", "invalid"}
    /\ get_template(content_types[1]) = EmptyStr

\* the hardcoded prompt of chunk_summarize, by its first line
IsSummaryFallback(s) ==
    /\ s # EmptyStr
    /\ s[1] = "Summarize the following chunk of content from an article titled "

\* C19: when the template of a key is empty or missing, the prompt to send
\* is the hardcoded fallback of that key, with or without a custom
\* instruction, and the call is not given up.
C19_EmptyTemplateUsesFallback ==
    TemplateEmptyOrMissing =>
        /\ opc = "rendered"
        /\ IF content_types[1] = "chunk_summarization"
           THEN IsSummaryFallback(prompt)
           ELSE prompt = fallback_prompts(condensed_content, title,
                             InstructionFor(content_types[1]))[content_types[1]]

(***************************************************************************)
(* Order of the steps of a run and its sleeps (SpecRun).                   *)
(***************************************************************************)
\* the event is the start or the end of a chunk summarization
IsChunkEvent(e) == e.ev \in {"call", "end"} /\ e.unit = "chunk"

\* the event is the start or the end of the generation for a content type
IsTypeEvent(e) == e.ev \in {"call", "end"} /\ e.unit # "chunk"

\* the number of chunk summarizations (of generations) ended within the
\* first p events
ChunksEndedBy(p) ==
    Cardinality({k \in 1..p : eventLog[k].ev = "end" /\ IsChunkEvent(eventLog[k])})
TypesEndedBy(p) ==
    Cardinality({k \in 1..p : eventLog[k].ev = "end" /\ IsTypeEvent(eventLog[k])})

\* the run went through all its steps and returned the mapping
RunCompleted == opc = "done" /\ ~FetchFailureReturned

\* C17: the steps of a run come in the order fetch-or-accept, chunk,
\* condense, generate: a call of the capability is made only once the
\* content is at hand and chunked, every chunk summarization has ended
\* before the first event of a generation, and the generations are made one
\* per requested content type in the order of content_types.
C17_StepsInOrder ==
    /\ eventLog # << >> =>
          /\ cpc = "done"
          /\ mode = "url" => fpc = "done"
    /\ \A p \in 1..Len(eventLog) :
          /\ IsChunkEvent(eventLog[p]) => TypesEndedBy(p) = 0
          /\ IsTypeEvent(eventLog[p]) =>
                /\ ChunksEndedBy(p) = Len(chunks)
                /\ \A q \in 1..p : IsChunkEvent(eventLog[q]) => q < p
                /\ eventLog[p].ev = "call" =>
                      eventLog[p].unit = content_types[TypesEndedBy(p) + 1]
                /\ eventLog[p].ev = "end" =>
                      eventLog[p].unit = content_types[TypesEndedBy(p)]
    /\ RunCompleted => TypesEndedBy(Len(eventLog)) = Len(content_types)

\* C17 witness: a run on a text that summarized its chunk and then
\* generated twitter before linkedin, as asked
C17_Witness ==
    /\ opc = "done"
    /\ content_types = <<"twitter", "linkedin">>
    /\ Len(chunks) = 1
    /\ ChunksEndedBy(Len(eventLog)) = 1
    /\ TypesEndedBy(Len(eventLog)) = 2
    /\ eventLog[1] = CallEvent("chunk", eventLog[1].detail)

\* the positions of the sleeps in the event log
SleepPositions == {p \in 1..Len(eventLog) : eventLog[p] = SleepEvent}

\* the inter-chunk (inter-type) sleeps: those that follow the end of a
\* chunk summarization (of a generation)
InterChunkSleeps == {p \in SleepPositions : p > 1 /\ IsChunkEvent(eventLog[p - 1])}
InterTypeSleeps == {p \in SleepPositions : p > 1 /\ IsTypeEvent(eventLog[p - 1])}

Max0(n) == IF n > 0 THEN n ELSE 0

\* C18: the run sleeps right after the end of every chunk summarization but
\* the last and right after the end of every generation but the last, and
\* nowhere else: a completed run with C chunks and T types has slept
\* max(C-1,0) times between chunks and max(T-1,0) times between types, and
\* not after the final generation.
C18_SleepsBetweenCallsOnly ==
    /\ \A p \in 1..Len(eventLog) :
          /\ eventLog[p] = SleepEvent =>
                /\ p > 1
                /\ eventLog[p - 1].ev = "end"
                /\ IsChunkEvent(eventLog[p - 1]) => ChunksEndedBy(p) < Len(chunks)
                /\ IsTypeEvent(eventLog[p - 1]) => TypesEndedBy(p) < Len(content_types)
          /\ (eventLog[p].ev = "end" /\ IsChunkEvent(eventLog[p])
                /\ ChunksEndedBy(p) < Len(chunks)) =>
                   (p < Len(eventLog) /\ eventLog[p + 1] = SleepEvent)
          /\ (eventLog[p].ev = "end" /\ IsTypeEvent(eventLog[p])
                /\ TypesEndedBy(p) < Len(content_types)) =>
                   (p < Len(eventLog) /\ eventLog[p + 1] = SleepEvent)
    /\ RunCompleted =>
          /\ Cardinality(InterChunkSleeps) = Max0(Len(chunks) - 1)
          /\ Cardinality(InterTypeSleeps) = Max0(Len(content_types) - 1)
          /\ Cardinality(SleepPositions) =
                Max0(Len(chunks) - 1) + Max0(Len(content_types) - 1)
          /\ eventLog # << >> => eventLog[Len(eventLog)] # SleepEvent

\* C18 witness: a completed run of one chunk and two types that slept once,
\* between the two generations
C18_Witness ==
    /\ RunCompleted
    /\ Len(chunks) = 1
    /\ Len(content_types) = 2
    /\ Cardinality(SleepPositions) = 1
    /\ Cardinality(InterTypeSleeps) = 1
    /\ eventLog[Len(eventLog)].ev = "end"

(***************************************************************************)
(* SpecKeys: two runs in one process, each constructing its own            *)
(* GeminiHandler with its own API key and calling the capability, in any   *)
(* interleaving.  __init__ hands the key to the library with               *)
(* genai.configure(api_key=...), which sets the configuration of the       *)
(* google.generativeai module, and builds genai.GenerativeModel(name)      *)
(* without a key: the model's client is made from the module's             *)
(* configuration.  The library is not part of the repository; whether the  *)
(* model takes its client when it is built ("eager") or at its first       *)
(* generate_content ("lazy") is left open.                                 *)
(***************************************************************************)
KeysInit ==
    /\ ChunkIdle
    /\ RetryIdle
    /\ FetchIdle
    /\ RunIdle
    /\ UIIdle
    /\ templates = TEMPLATES
    /\ binding \in {"eager", "lazy"}
    /\ configured_key = "none"
    /\ hpc = [h \in RunIds |-> "new"]
    /\ client_key = [h \in RunIds |-> "unbound"]
    /\ used_keys = [h \in RunIds |-> << >>]

\* GeminiHandler.__init__ line 36: genai.configure(api_key=self.api_key)
genai_configure(h) ==
    /\ hpc[h] = "new"
    /\ configured_key' = ApiKeyOf(h)
    /\ hpc' = [hpc EXCEPT ![h] = "configured"]
    /\ UNCHANGED <<binding, client_key, used_keys>>

\* GeminiHandler.__init__ line 37: self.model = genai.GenerativeModel(...)
create_model(h) ==
    /\ hpc[h] = "configured"
    /\ hpc' = [hpc EXCEPT ![h] = "ready"]
    /\ client_key' = [client_key EXCEPT
                         ![h] = IF binding = "eager" THEN configured_key ELSE "unbound"]
    /\ UNCHANGED <<binding, configured_key, used_keys>>

\* _call_with_retry line 55: self.model.generate_content(prompt), made under
\* the key of the model's client
model_generate_content(h) ==
    /\ hpc[h] = "ready"
    /\ Len(used_keys[h]) < MaxCalls
    /\ LET k == IF client_key[h] = "unbound" THEN configured_key ELSE client_key[h]
       IN  /\ client_key' = [client_key EXCEPT ![h] = k]
           /\ used_keys' = [used_keys EXCEPT ![h] = Append(used_keys[h], k)]
    /\ UNCHANGED <<binding, configured_key, hpc>>

KeysNext ==
    \E h \in RunIds :
        \/ genai_configure(h)
              /\ UNCHANGED <<templates, uiVars, chunkVars, retryVars, fetchVars, runVars>>
        \/ create_model(h)
              /\ UNCHANGED <<templates, uiVars, chunkVars, retryVars, fetchVars, runVars>>
        \/ model_generate_content(h)
              /\ UNCHANGED <<templates, uiVars, chunkVars, retryVars, fetchVars, runVars>>

SpecKeys == KeysInit /\ [][KeysNext]_vars

(***************************************************************************)
(* Properties of concurrent runs (SpecKeys).                               *)
(***************************************************************************)
\* C20: every generation call of a run is made under the API key that run's
\* handler was constructed with, whatever the interleaving.
C20_CallsUnderOwnKey ==
    \A h \in RunIds : \A k \in 1..Len(used_keys[h]) : used_keys[h][k] = ApiKeyOf(h)

(***************************************************************************)
(* SpecUI: the handler of the "Repurpose Content" button of api/index.py,  *)
(* lines 204-294.  In the URL flow the page fetches the URL itself, gives  *)
(* up when that fetch has no content, and then calls repurpose, which      *)
(* fetches again; in the paste flow it calls repurpose_from_text.  An      *)
(* error that reaches the handler's except is answered with guidance       *)
(* chosen by the text of the error.                                        *)
(***************************************************************************)
Msg403 == <<"4", "0", "3">>
Msg401 == <<"4", "0", "1">>

\* the error that leaves fetch_content from header generation
HeaderError == [kind |-> "error", type |-> "ValueError",
                msg |-> <<"I", "n", "v", "a", "l", "i", "d", " ", "U", "R", "L">>]

\* results[content_type] for a key the mapping does not have
KeyErrorFor(content_type) ==
    [kind |-> "error", type |-> "KeyError", msg |-> <<"'", content_type, "'">>]

\* lines 284-294: the guidance chosen by the text of the error
GuidanceFor(e) ==
    IF Contains(e.msg, Msg429) THEN "rate_limit"
    ELSE IF Contains(e.msg, Msg403) \/ Contains(e.msg, Msg401) THEN "credential"
    ELSE "generic"

\* the content types the page can select, in the order of lines 169-177
UITypeLists == {<<"linkedin">>, <<"linkedin", "twitter">>}

\* the pasted texts the button accepts: not empty, possibly blank
UIContents == {<<"a">>, <<SP>>}

UIInit ==
    /\ ChunkIdle
    /\ RetryIdle
    /\ KeysIdle
    /\ templates = TEMPLATES
    /\ guidance = "none"
    /\ mode \in {"url", "text"}
    /\ content_types \in UITypeLists
    /\ custom_instructions = [t \in {content_types[i] : i \in 1..Len(content_types)} |-> EmptyStr]
    /\ IF mode = "url"
       THEN /\ FetchStart
            /\ upc = "precheck"
            /\ opc = "idle"
            /\ title = EmptyStr
            /\ content = EmptyStr
       ELSE /\ FetchIdle
            /\ upc = "running"
            /\ opc = "start"
            /\ title = <<"T">>
            /\ content \in UIContents
    /\ idx = 0
    /\ prompt = EmptyStr
    /\ summarized_chunks = << >>
    /\ condensed_content = EmptyStr
    /\ results = << >>
    /\ eventLog = << >>

\* lines 218-226: the page's own fetch_content has ended; without content
\* the page reports it and returns, otherwise repurpose is called and
\* starts its own fetch of the same URL
main_precheck ==
    /\ upc = "precheck"
    /\ fpc \in {"done", "raised"}
    /\ IF fpc = "raised"
       THEN /\ upc' = "failed"
            /\ guidance' = GuidanceFor(HeaderError)
            /\ UNCHANGED <<fetchVars, opc>>
       ELSE IF fetchResult.content = EmptyStr
       THEN /\ upc' = "access_denied"
            /\ UNCHANGED <<guidance, fetchVars, opc>>
       ELSE /\ upc' = "running"
            /\ opc' = "fetching"
            /\ fpc' = "direct"
            /\ attempt' = 0
            /\ gets' = 0
            /\ lastGet' = "none"
            /\ fetchDelays' = << >>
            /\ stratLog' = << >>
            /\ yielded' = {}
            /\ soup_title' = "unparsed"
            /\ fetchResult' = EmptyResult
            /\ UNCHANGED <<guidance, url>>
    /\ UNCHANGED <<templates, keyVars, chunkVars, retryVars, mode, content_types,
                   custom_instructions, title, content, idx, prompt,
                   summarized_chunks, condensed_content, results, eventLog>>

\* the selected content types the returned mapping has no key for
MissingKeys == {i \in 1..Len(content_types) : content_types[i] \notin DOMAIN results}

\* lines 241-294: the run has ended; its mapping is displayed type by type,
\* or the error that reached the except is answered with guidance
main_display ==
    /\ upc = "running"
    /\ opc \in {"done", "raised"}
    /\ IF opc = "raised"
       THEN /\ upc' = "failed"
            /\ guidance' = GuidanceFor(HeaderError)
       ELSE IF MissingKeys # {}
       THEN /\ upc' = "failed"
            /\ guidance' = GuidanceFor(KeyErrorFor(
                              content_types[CHOOSE i \in MissingKeys :
                                               \A j \in MissingKeys : i <= j]))
       ELSE /\ upc' = "displayed"
            /\ UNCHANGED guidance
    /\ UNCHANGED <<templates, keyVars, chunkVars, retryVars, fetchVars, runVars>>

UINext ==
    \/ fetch_direct /\ (upc = "precheck" \/ opc = "fetching")
          /\ UNCHANGED <<envVars, chunkVars, retryVars, runVars>>
    \/ fetch_with_regular_requests /\ (upc = "precheck" \/ opc = "fetching")
          /\ UNCHANGED <<envVars, chunkVars, retryVars, runVars>>
    \/ fetch_with_cloudscraper /\ (upc = "precheck" \/ opc = "fetching")
          /\ UNCHANGED <<envVars, chunkVars, retryVars, runVars>>
    \/ main_precheck
    \/ repurpose
    \/ repurpose_from_text
    \/ chunk_summarize
    \/ generate_content
    \/ chunk_summarized
    \/ create_repurposed_content
    \/ content_generated
    \/ main_display

SpecUI == UIInit /\ [][UINext]_vars

(***************************************************************************)
(* Properties of the page (SpecUI).                                        *)
(***************************************************************************)
\* how the generation calls of the run that failed have failed
FailureCauses ==
    {eventLog[p].detail[1] :
        p \in {q \in 1..Len(eventLog) :
                  /\ eventLog[q].ev = "end"
                  /\ eventLog[q].detail[1] \in {"rate_limited", "rejected"}}}

\* the handler of the page has ended
PageEnded == upc \in {"displayed", "failed", "access_denied"}

\* C21: when generation calls of the run failed, the page ends with the
\* guidance of the cause: rate-limit guidance when they failed on the 429
\* signal, credential guidance when they were rejected with 403.
C21_GuidanceByCause ==
    PageEnded =>
        /\ FailureCauses = {"rate_limited"} => guidance = "rate_limit"
        /\ FailureCauses = {"rejected"} => guidance = "credential"

(***************************************************************************)
(* Small articles in a run (SpecRun).                                      *)
(***************************************************************************)
\* the text of the run was chunked and its estimate (len/4) is within
\* max_tokens
SmallTextChunked == cpc = "done" /\ Len(text) <= 4 * max_tokens

\* the chunk summarizations started so far
ChunkCalls == {p \in 1..Len(eventLog) : eventLog[p] = CallEvent("chunk", eventLog[p].detail)}

\* for the text of the run there is one chunk, condensation makes one
\* summarization call, and a summarization call that has returned without
\* a failure has invoked the capability once
OneChunkOneCall ==
    /\ Len(chunks) = 1
    /\ Condensed => Cardinality(ChunkCalls) = 1
    /\ (opc = "summarizing" /\ rpc = "returned" /\ Failures = << >>) => Len(history) = 1

\* C22 as stated: for any text whose estimate is at most max_tokens there
\* is exactly one chunk and condensation invokes the capability exactly
\* once when the call does not fail.
C22_SmallTextOneChunk == SmallTextChunked => OneChunkOneCall

\* C22 amended: the same for a text that is not empty or whitespace-only.
C22_SmallNonBlankTextOneChunk ==
    (SmallTextChunked /\ Strip(text) # EmptyStr) => OneChunkOneCall

\* C22 witness: the only chunk of a small text was summarized by one
\* invocation that succeeded
C22_Witness ==
    /\ SmallTextChunked
    /\ Strip(text) # EmptyStr
    /\ Len(chunks) = 1
    /\ opc = "summarizing"
    /\ rpc = "returned"
    /\ history = <<OkResp>>

(***************************************************************************)
(* The waits of _call_with_retry (SpecRetry).                              *)
(***************************************************************************)
\* C23: the least wait before retry number k (k = 0, 1, ...) is
\* base_delay^k, and for base_delay = 2 the least waits of successive
\* retries are strictly increasing: 1, 2, 4, 8, ...
C23_BackoffIsExponential ==
    /\ \A k \in 1..Len(delays) : delays[k] = Pow(base_delay, k - 1)
    /\ base_delay = 2 =>
          /\ \A k \in 2..Len(delays) : delays[k] > delays[k - 1]
          /\ \A k \in 1..Len(delays) : delays[k] = <<1, 2, 4, 8, 16, 32>>[k]

\* C23 witness: a call that has waited three times, at least 1, 2 and 4
C23_Witness ==
    /\ base_delay = 2
    /\ delays = <<1, 2, 4>>
    /\ retries = 3

(***************************************************************************)
(* Texts of several paragraphs (SpecChunk).                                *)
(***************************************************************************)
RECURSIVE SumLen(_)
SumLen(parts) == IF parts = << >> THEN 0 ELSE Len(Head(parts)) + SumLen(Tail(parts))

\* the paragraphs of the input text: its parts between blank lines
InputParagraphs == SplitParagraphs(Strip(text))

\* the input is made of several paragraphs, each a text without whitespace
\* at its ends, each within max_tokens and together over it
ParagraphsOverBudget ==
    /\ Len(InputParagraphs) > 1
    /\ \A i \in 1..Len(InputParagraphs) :
          /\ InputParagraphs[i] # EmptyStr
          /\ Strip(InputParagraphs[i]) = InputParagraphs[i]
          /\ Len(InputParagraphs[i]) <= 4 * max_tokens
    /\ SumLen(InputParagraphs) > 4 * max_tokens

\* C24: a text of several paragraphs, each within max_tokens and together
\* over it, comes back as more than one chunk.
C24_ParagraphsAreSealed ==
    (cpc = "done" /\ ParagraphsOverBudget) => Len(chunks) > 1

(***************************************************************************)
(* The requests of fetch_with_regular_requests (SpecFetch).                *)
(***************************************************************************)
\* the last GET was answered with status 200
LastGetOk == lastGet \in {"200", "200_empty"}

\* the last GET was refused, failed with another status, or the request
\* raised a RequestException
LastGetFailed == lastGet \in {"403", "429", "500", "RequestException"}

\* C25: a call issues at most 3 GET requests; after a GET that was refused
\* (403, 429) or that errored, with attempts left, the loop goes on to
\* another attempt; after the first GET answered 200 the call has returned
\* and issues no further request; after 3 failed GETs it has returned
\* nothing and the cascade has moved on.
C25_AtMostThreeGets ==
    /\ gets <= 3
    /\ gets <= attempt + 1
    /\ (LastGetFailed /\ gets < 3 /\ fpc # "raised") => (fpc = "regular" /\ attempt = gets)
    /\ LastGetOk => fpc \in {"cloud", "done"}
    /\ (LastGetFailed /\ gets = 3) =>
          /\ fpc \in {"cloud", "done"}
          /\ "disguised" \notin yielded
    /\ fpc = "regular" => (gets < 3 /\ ~LastGetOk)

\* C25 witness: three GETs were refused or failed and the cascade went on
\* to the third strategy
C25_Witness ==
    /\ gets = 3
    /\ lastGet = "429"
    /\ fpc = "cloud"
    /\ "disguised" \notin yielded

\* C26: the delay before each successive retry increases: the least delay
\* before the third attempt is larger than the least delay before the second.
C26_RetryDelayIncreases ==
    \A k \in 2..Len(fetchDelays) : fetchDelays[k] > fetchDelays[k - 1]

\* the strategy invoked last
LastStrategy == stratLog[Len(stratLog)]

\* the last strategy extracted non-empty body text from the page it parsed
LastStrategyYielded == stratLog # << >> /\ LastStrategy \in yielded

\* C27: the title is taken independently of the body: a strategy that
\* extracts non-empty body text from its page succeeds and fetch_content
\* returns that body, whether the page's title tag is absent, present with
\* text, or present without a string; with an absent title tag the returned
\* title is the empty string.
C27_TitleIndependentOfBody ==
    LastStrategyYielded =>
        /\ soup_title \in {"absent", "string", "nostring"}
        /\ fpc = "done"
        /\ fetchResult.content # EmptyStr
        /\ soup_title = "absent" => fetchResult.title = EmptyStr

\* the part of C27 about pages whose title tag has a string or is absent
C27_TitledPagesSucceed ==
    (LastStrategyYielded /\ soup_title # "nostring") =>
        /\ fpc = "done"
        /\ fetchResult.content # EmptyStr
        /\ soup_title = "absent" => fetchResult.title = EmptyStr

(***************************************************************************)
(* The summaries handed to summarize_chunks (SpecRun).                     *)
(***************************************************************************)
\* the summarization requests of the run, in order
ChunkRequests == SelectSeq(eventLog, LAMBDA e : e.ev = "call" /\ e.unit = "chunk")

\* the entry chunk_summarize gives for chunk i, by how its call ended
SummaryOf(i) ==
    CASE ChunkEnds[i].detail[1] = "ok"       -> OkResp.msg
      [] ChunkEnds[i].detail[1] = "ok_empty" -> OkEmptyResp.msg
      [] OTHER                               -> chunks[i]

\* C28: the list of summaries has one entry per chunk, the i-th derived from
\* the i-th chunk: the i-th request is the summarization prompt of chunk i
\* and the i-th entry is that request's answer or, on failure, chunk i; when
\* summarize_chunks is called the two lists have the same length (the
\* mismatch warning is not reached) and the condensed document is the join
\* of the summaries in chunk order.
C28_SummariesMatchChunks ==
    /\ Len(summarized_chunks) <= Len(chunks)
    /\ Len(ChunkRequests) <= Len(chunks)
    /\ Len(summarized_chunks) = Len(ChunkEnds)
    /\ \A i \in 1..Len(ChunkRequests) :
          ChunkRequests[i].detail = SummarizePrompt(chunks[i], title)
    /\ \A i \in 1..Len(summarized_chunks) : summarized_chunks[i] = SummaryOf(i)
    /\ opc \in {"summarize", "summarizing"} => Len(summarized_chunks) = idx
    /\ Condensed =>
          /\ Len(summarized_chunks) = Len(chunks)
          /\ Len(ChunkRequests) = Len(chunks)
          /\ condensed_content = JoinPar(summarized_chunks)

\* C28 witness: a run over one chunk whose summarization was answered has
\* condensed the answer and finished
C28_Witness ==
    /\ opc = "done"
    /\ Len(chunks) = 1
    /\ Len(ChunkRequests) = 1
    /\ ChunkRequests[1].detail = SummarizePrompt(chunks[1], title)
    /\ summarized_chunks = <<OkResp.msg>>
    /\ condensed_content = OkResp.msg

(***************************************************************************)
(* Sleeps between units of work (SpecRun).                                 *)
(***************************************************************************)
\* the positions in eventLog of the generation requests that open a unit of
\* work: the summarization of a chunk, the generation of a content type
UnitStarts == {p \in 1..Len(eventLog) : eventLog[p].ev = "call"}

C29_SleepBetweenTypes ==
    \A p, q \in UnitStarts :
        (/\ p < q
         /\ \A m \in (p + 1)..(q - 1) : m \notin UnitStarts
         /\ eventLog[p].unit = eventLog[q].unit) =>
            \E m \in (p + 1)..(q - 1) : eventLog[m] = SleepEvent

(***************************************************************************)
(* The number of chunks (SpecChunk).                                       *)
(***************************************************************************)
\* the sleeps the chunk loop of repurpose performs over a chunk list of
\* length n: one after every chunk i (0-based) that is not the last
RECURSIVE ChunkLoopSleeps(_, _)
ChunkLoopSleeps(i, n) ==
    IF i >= n THEN << >>
    ELSE SleepIfNotLast(<< >>, i, n) \o ChunkLoopSleeps(i + 1, n)

SpecRetryLive == RetryInit /\ [][RetryNext]_vars /\ WF_vars(RetryNext)

\* the resources one call has used are within the budget of max_retries
WithinRetryBudget ==
    /\ Len(history) <= max_retries + 1
    /\ Len(delays) <= max_retries
    /\ retries <= max_retries
    /\ retries = Len(delays)
    /\ rpc = "loop" => Len(history) = retries
    /\ rpc # "fell"
    /\ rpc = "returned" => (history # << >> /\ retval = history[Len(history)].msg)
    /\ rpc = "raised" => (history # << >> /\ raisedErr = history[Len(history)])

\* C31: for every max_retries >= 0 and every behaviour of the capability the
\* call terminates, after at most max_retries + 1 invocations and at most
\* max_retries sleeps, and it ends by returning the response text or by
\* raising, never by leaving the loop without a value.
C31_TerminatesWithinBudget ==
    /\ []WithinRetryBudget
    /\ <>(rpc \in {"returned", "raised"})

\* C31 witness: a call that used its whole budget, max_retries + 1
\* invocations and max_retries sleeps, and ended by raising
C31_Witness ==
    /\ rpc = "raised"
    /\ max_retries = MaxRetriesBound
    /\ Len(history) = max_retries + 1
    /\ Len(delays) = max_retries
    /\ Has429(raisedErr)

(***************************************************************************)
(* Generations and keys of the returned mapping (SpecRun).                 *)
(***************************************************************************)
\* the invocations of create_repurposed_content that have returned, in order
TypeEnds == SelectSeq(eventLog, LAMBDA e : e.ev = "end" /\ e.unit # "chunk")

\* what create_repurposed_content returned for content type t when its
\* invocation ended by outcome
GeneratedValue(t, outcome) ==
    CASE outcome = "ok"       -> OkResp.msg
      [] outcome = "ok_empty" -> OkEmptyResp.msg
      [] outcome = "invalid"  -> InvalidTypeMarker(t)
      [] OTHER                -> ErrorMarker(t)

\* C32: in a run over non-empty content the generator is invoked once per
\* element of content_types, duplicates included, in the order of the
\* list; the mapping returned has exactly the distinct requested types as
\* keys, and each key holds what the last generation for that type gave.
C32_OneGenerationPerElement ==
    /\ Len(TypeEnds) <= Len(content_types)
    /\ \A k \in 1..Len(TypeEnds) : TypeEnds[k].unit = content_types[k]
    /\ opc \in {"generate", "generating"} =>
          /\ Len(TypeEnds) = idx
          /\ DOMAIN results = {content_types[k] : k \in 1..idx}
    /\ (RunCompleted /\ content # EmptyStr) =>
          /\ Len(TypeEnds) = Len(content_types)
          /\ DOMAIN results = Requested
          /\ Cardinality(DOMAIN results) <= Len(content_types)
          /\ \A t \in Requested : results[t] = GeneratedValue(t, LastOutcome(t))

\* C32 witness: a run that requested linkedin twice generated twice, the
\* first generation answered and the second rejected, and returned one key
\* holding the second generation's error marker
C32_Witness ==
    /\ opc = "done"
    /\ content # EmptyStr
    /\ content_types = <<"linkedin", "linkedin">>
    /\ Len(TypeEnds) = 2
    /\ TypeEnds[1].detail[1] = "ok"
    /\ TypeEnds[2].detail[1] = "rejected"
    /\ DOMAIN results = {"linkedin"}
    /\ results["linkedin"] = ErrorMarker("linkedin")

(***************************************************************************)
(* The URL flow of the page (SpecUI).                                      *)
(***************************************************************************)
\* repurpose has returned its mapping to the page, which goes on to display
\* results[content_type] for every selected type
AtResultDisplay == mode = "url" /\ upc = "running" /\ opc = "done"

\* the extractor ran for the pre-check and again inside repurpose: the
\* pre-check's fetch ended with content before repurpose was called, and the
\* mapping was returned after a fetch of repurpose's own had ended
FetchedTwice ==
    /\ (mode = "url" /\ upc = "running") => fpc # "idle"
    /\ (mode = "url" /\ upc = "running" /\ opc # "fetching") =>
          (fpc \in {"done", "raised"} /\ stratLog # << >>)
    /\ (mode = "url" /\ upc \in {"access_denied", "precheck"}) => opc = "idle"

\* C33: in the URL flow the extractor is run once by the pre-check and a
\* second time inside repurpose, and whenever the flow reaches the result
\* display the mapping returned by repurpose has a key for every selected
\* content type, whatever the outcome of the second fetch.
C33_DisplayHasEveryKey ==
    /\ FetchedTwice
    /\ AtResultDisplay => MissingKeys = {}

\* the display finds every key when the second fetch gave content
C33_KeysWhenSecondFetchSucceeds ==
    (AtResultDisplay /\ fetchResult.content # EmptyStr) => MissingKeys = {}

=============================================================================
